---- MODULE Spec2Model ----
(***************************************************************************)
(* Model of src/app.py (supermarket dashboard): the CSV loader load_data   *)
(* with its header normalizer _normalize_cols and the ALIASES table.       *)
(*                                                                         *)
(* Text is modelled character by character: a string is a sequence of      *)
(* one-character strings.  The two non-ASCII letters of the source are      *)
(* written "a~" (a with tilde, U+00E3) and "A~" (U+00C3); the byte-order   *)
(* mark U+FEFF is the character BOM; "<A3>" is the pound sign U+00A3 that   *)
(* appears when the UTF-8 bytes of "a~" are decoded as Latin-1.            *)
(***************************************************************************)
EXTENDS Integers, Sequences, FiniteSets, TLC

VARIABLES
    file,       \* the CSV file found at csv_path (content, fixed during a run)
    pc,         \* position in load_data: "loop", "after_loop", "done"; "norm" in SpecNorm
    enc_i,      \* index of enc in encodings_to_try
    sep_i,      \* index of sep_val in seps_to_try
    best_df,    \* best_df of load_data (None or a table)
    df_local,   \* df_local, the value load_data returns (None until returned)
    outcome,    \* how the call ended: "running", "returned", "stopped", "raised"
    ui,         \* the st.* calls load_data made during the current call
    skipped,    \* the (enc, sep) pairs whose trial raised and was swallowed by `except`
    cache,      \* the st.cache_data entry for csv_path (None or a table)
    run,        \* number of the current call of load_data
    prev,       \* what the previous call produced (None before the second call)
    cols_in,    \* SpecNorm: the argument of _normalize_cols
    cols_out,   \* SpecNorm: the result of _normalize_cols(cols_in)
    cols_out2,  \* SpecNorm: the result of _normalize_cols(cols_out)
    alias_key,  \* SpecAlias: the ALIASES key whose spelling is cols_in[1]
    resolved,   \* SpecAlias: cols_out after the rename with ALIASES
    variant,    \* SpecData: which writing of the data is loaded ("original",
                \* "delimiter": the same data written with semicolons,
                \* "encoding": the same data written in cp1252)
    mpc,        \* SpecMain: position in main: "start", "load", "filter",
                \* "dispatch", "end"; "off" in the other specifications
    uploaded_file, \* SpecMain: the file held by st.sidebar.file_uploader (or None)
    heap,       \* SpecMain: the DataFrame objects of the current run, by reference
    df_ref,     \* SpecMain: the object `df` of main refers to (0: not bound)
    filtered_ref, \* SpecMain: the object `filtered_df` of main refers to (0: not bound)
    invoked,    \* SpecMain: the analysis functions called in the current run
    main_ui,    \* SpecMain: the st.* calls that main made to end the current run
    widgets,    \* SpecMain: what the filter widgets returned in the current run
                \* (selected_regions, selected_categories, min_margin; None before)
    shown       \* SpecMain: what the analyses of the current run displayed
                \* (discount_analysis, recommendations; None before)

vars == <<file, pc, enc_i, sep_i, best_df, df_local, outcome, ui, skipped,
          cache, run, prev, cols_in, cols_out, cols_out2, alias_key, resolved,
          variant, mpc, uploaded_file, heap, df_ref, filtered_ref, invoked,
          main_ui, widgets, shown>>

loadVars == <<file, enc_i, sep_i, best_df, df_local, outcome, ui, skipped,
              cache, run, prev>>
normVars == <<cols_in, cols_out, cols_out2>>
aliasVars == <<alias_key, resolved>>
mainVars == <<mpc, uploaded_file, heap, df_ref, filtered_ref, invoked, main_ui,
              widgets, shown>>
extraVars == <<aliasVars, variant, mainVars>>

----------------------------------------------------------------------------
(* Bounds *)

MaxFields == 3      \* header fields written in a file
MaxRuns == 2        \* calls of load_data on the same file
MaxLen == 3         \* characters of a header handed to _normalize_cols
MaxPad == 1         \* whitespace characters written on each side of a header
MaxCols == 2        \* columns of a data file
MaxRows == 2        \* data rows of a data file

----------------------------------------------------------------------------
(* Characters and strings *)

BOM == "<FEFF>"
TAB == "\t"
None == [none |-> TRUE]

sales == <<"s", "a", "l", "e", "s">>
profit == <<"p", "r", "o", "f", "i", "t">>
quantity == <<"q", "u", "a", "n", "t", "i", "t", "y">>
category == <<"c", "a", "t", "e", "g", "o", "r", "y">>
discount == <<"d", "i", "s", "c", "o", "u", "n", "t">>
region == <<"r", "e", "g", "i", "o", "n">>
vendas == <<"v", "e", "n", "d", "a", "s">>
lucro == <<"l", "u", "c", "r", "o">>
quantidade == <<"q", "u", "a", "n", "t", "i", "d", "a", "d", "e">>
categoria == <<"c", "a", "t", "e", "g", "o", "r", "i", "a">>
desconto == <<"d", "e", "s", "c", "o", "n", "t", "o">>
regiao == <<"r", "e", "g", "i", "a", "o">>
regiao_til == <<"r", "e", "g", "i", "a~", "o">>

REQUIRED == <<sales, profit, quantity, category, discount, region>>

ALIASES ==
    (vendas :> sales) @@ (sales :> sales) @@
    (lucro :> profit) @@ (profit :> profit) @@
    (quantidade :> quantity) @@ (quantity :> quantity) @@
    (categoria :> category) @@ (category :> category) @@
    (desconto :> discount) @@ (discount :> discount) @@
    (regiao :> region) @@ (regiao_til :> region) @@ (region :> region)

\* str.isspace() for the characters of the model; U+FEFF is not whitespace.
IsSpace(c) == c \in {" ", TAB, "\n", "\r"}

UpperLetters ==
    ("A" :> "a") @@ ("B" :> "b") @@ ("C" :> "c") @@ ("D" :> "d") @@
    ("E" :> "e") @@ ("F" :> "f") @@ ("G" :> "g") @@ ("H" :> "h") @@
    ("I" :> "i") @@ ("J" :> "j") @@ ("K" :> "k") @@ ("L" :> "l") @@
    ("M" :> "m") @@ ("N" :> "n") @@ ("O" :> "o") @@ ("P" :> "p") @@
    ("Q" :> "q") @@ ("R" :> "r") @@ ("S" :> "s") @@ ("T" :> "t") @@
    ("U" :> "u") @@ ("V" :> "v") @@ ("W" :> "w") @@ ("X" :> "x") @@
    ("Y" :> "y") @@ ("Z" :> "z") @@ ("A~" :> "a~")

RECURSIVE LStrip(_)
LStrip(s) == IF s = <<>> \/ ~IsSpace(Head(s)) THEN s ELSE LStrip(Tail(s))

RECURSIVE RStrip(_)
RStrip(s) ==
    IF s = <<>> \/ ~IsSpace(s[Len(s)]) THEN s ELSE RStrip(SubSeq(s, 1, Len(s) - 1))

\* .str.strip()
str_strip(s) == RStrip(LStrip(s))

\* Variant of str_lower: only the ASCII letters are lowercased.
str_lower_ascii(s) ==
    [i \in 1..Len(s) |->
        IF s[i] \in DOMAIN UpperLetters /\ s[i] # "A~" THEN UpperLetters[s[i]] ELSE s[i]]

\* .str.lower()
str_lower(s) ==
    [i \in 1..Len(s) |-> IF s[i] \in DOMAIN UpperLetters THEN UpperLetters[s[i]] ELSE s[i]]

\* .str.replace(U+FEFF, "", regex=False): every occurrence is removed
str_remove_bom(s) == SelectSeq(s, LAMBDA c : c # BOM)

\* .str.replace(" ", "_", regex=False)
str_replace_space(s) == [i \in 1..Len(s) |-> IF s[i] = " " THEN "_" ELSE s[i]]

\* One header through the chain of _normalize_cols, in the order of the code.
normalize_one(s) == str_replace_space(str_remove_bom(str_lower(str_strip(s))))

_normalize_cols(cols) == [i \in 1..Len(cols) |-> normalize_one(cols[i])]

----------------------------------------------------------------------------
(* The file at csv_path.  A file is its header line (the fields as written *)
(* and the delimiter written between consecutive fields), the encoding it  *)
(* was written in, whether it holds a byte that is neither valid UTF-8 nor *)
(* defined in cp1252 (0x81), its data rows (each a list of cell texts,      *)
(* written with the delimiters of the header line), and the number of      *)
(* accented characters in the text cells of the rows that follow them.     *)

hdr_Vendas == <<"V", "e", "n", "d", "a", "s">>
hdr_Regiao_til == <<"R", "e", "g", "i", "a~", "o">>
hdr_id == <<"i", "d">>

HeaderWords == {sales, hdr_Vendas, hdr_Regiao_til, hdr_id}
FileSeps == {",", ";"}
MojibakeThreshold == 5
MarkCounts == {0, MojibakeThreshold - 1, MojibakeThreshold}

\* The files with k header fields.
Files(k) ==
    {[fields |-> fs, gaps |-> gs, written |-> w, bad |-> b, marks |-> m,
      rows |-> <<>>] :
        fs \in [1..k -> HeaderWords], gs \in [1..(k - 1) -> FileSeps],
        w \in {"utf-8", "cp1252"}, b \in BOOLEAN, m \in MarkCounts}

\* Variant of encodings_to_try: the single-byte codec is tried first.
encodings_to_try_latin1_first == <<"latin1", "utf-8", "utf-8-sig", "cp1252", "iso-8859-1">>

encodings_to_try == <<"utf-8", "utf-8-sig", "latin1", "cp1252", "iso-8859-1">>
\* Variant of seps_to_try: the semicolon is missing from the list.
seps_to_try_no_semicolon == <<",", TAB, "|">>

seps_to_try == <<",", ";", TAB, "|">>

Utf8Family == {"utf-8", "utf-8-sig"}
Latin1Family == {"latin1", "cp1252", "iso-8859-1"}

HasNonAscii(f) ==
    \/ f.marks > 0
    \/ \E i \in 1..Len(f.fields) : \E j \in 1..Len(f.fields[i]) : f.fields[i][j] = "a~"
    \/ \E r \in 1..Len(f.rows) : \E i \in 1..Len(f.rows[r]) :
           \E j \in 1..Len(f.rows[r][i]) : f.rows[r][i][j] = "a~"

\* The codec raises UnicodeDecodeError: single-byte accented letters and 0x81 are
\* invalid UTF-8; 0x81 is undefined in cp1252; latin1 / iso-8859-1 decode any byte.
DecodeFails(f, enc) ==
    IF enc \in Utf8Family THEN f.bad \/ (f.written = "cp1252" /\ HasNonAscii(f))
    ELSE IF enc = "cp1252" THEN f.bad
    ELSE FALSE

\* The bytes C3 A3 of a UTF-8 "a~" read by a single-byte codec give "A~" and "<A3>".
RECURSIVE DecodeStr(_, _, _)
DecodeStr(s, written, enc) ==
    IF s = <<>> THEN <<>>
    ELSE (IF Head(s) = "a~" /\ written = "utf-8" /\ enc \in Latin1Family
          THEN <<"A~", "<A3>">> ELSE <<Head(s)>>)
         \o DecodeStr(Tail(s), written, enc)

\* Split the header line on sep: fields joined by another delimiter stay one field.
RECURSIVE SplitHeader(_, _, _)
SplitHeader(fields, gaps, sep) ==
    IF Len(fields) = 1 THEN <<fields[1]>>
    ELSE LET rest == SplitHeader(Tail(fields), Tail(gaps), sep)
         IN  IF gaps[1] = sep
             THEN <<fields[1]>> \o rest
             ELSE <<fields[1] \o <<gaps[1]>> \o rest[1]>> \o Tail(rest)

\* pandas renames a repeated header name x to x.1, x.2, ...
MangleDupes(cols) ==
    [i \in 1..Len(cols) |->
        LET k == Cardinality({j \in 1..(i - 1) : cols[j] = cols[i]})
        IN  IF k = 0 THEN cols[i] ELSE cols[i] \o <<".", ToString(k)>>]

(* Cell values of a table: a missing value, a text, or a number (an int64    *)
(* or, in a column that also holds missing values, a float64).             *)
NaN == [nan |-> TRUE]
Text(s) == [str |-> s]
Num(v, isfloat) == [num |-> v, float |-> isfloat]
IsNaN(c) == c = NaN
IsText(c) == DOMAIN c = {"str"}
IsNum(c) == DOMAIN c = {"num", "float"}

DigitChars == <<"0", "1", "2", "3", "4", "5", "6", "7", "8", "9">>
IsDigit(ch) == \E d \in 1..10 : DigitChars[d] = ch
DigitVal(ch) == (CHOOSE d \in 1..10 : DigitChars[d] = ch) - 1

\* The text is an integer literal: an optional minus sign and one or more digits.
IsIntText(s) ==
    LET body == IF s # <<>> /\ Head(s) = "-" THEN Tail(s) ELSE s
    IN  body # <<>> /\ \A i \in 1..Len(body) : IsDigit(body[i])

RECURSIVE DigitsVal(_)
DigitsVal(s) ==
    IF s = <<>> THEN 0 ELSE 10 * DigitsVal(SubSeq(s, 1, Len(s) - 1)) + DigitVal(s[Len(s)])

IntOf(s) == IF Head(s) = "-" THEN 0 - DigitsVal(Tail(s)) ELSE DigitsVal(s)

RECURSIVE NatStr(_)
NatStr(n) == IF n < 10 THEN <<DigitChars[n + 1]>> ELSE NatStr(n \div 10) \o <<DigitChars[(n % 10) + 1]>>

\* str() of a number: an int64 prints its digits, a float64 with an integral
\* value prints them followed by ".0".
NumStr(c) ==
    (IF c.num < 0 THEN <<"-">> \o NatStr(0 - c.num) ELSE NatStr(c.num))
        \o (IF c.float THEN <<".", "0">> ELSE <<>>)

\* Type inference of read_csv on one column of cell texts: an empty field is
\* missing; if every other field is a number the column is numeric (float64
\* when a value is missing), else the fields stay text.
InferColumn(texts) ==
    LET present == {r \in 1..Len(texts) : texts[r] # <<>>}
        numeric == \A r \in present : IsIntText(texts[r])
        anyna == present # 1..Len(texts)
    IN  [r \in 1..Len(texts) |->
            IF texts[r] = <<>> THEN NaN
            ELSE IF numeric THEN Num(IntOf(texts[r]), anyna)
            ELSE Text(texts[r])]

\* The data rows of the file as the cells of the parsed table, cells[r][j].
ParseCells(f, enc, sep, ncols) ==
    LET raw == [r \in 1..Len(f.rows) |->
                   SplitHeader([i \in 1..Len(f.rows[r]) |->
                                    DecodeStr(f.rows[r][i], f.written, enc)],
                               f.gaps, sep)]
        col(j) == InferColumn([r \in 1..Len(raw) |-> raw[r][j]])
    IN  [r \in 1..Len(raw) |-> [j \in 1..ncols |-> col(j)[r]]]

\* Occurrences of the letter "A~" in the text cells.
RECURSIVE CountMarks(_)
CountMarks(s) ==
    IF s = <<>> THEN 0 ELSE (IF Head(s) = "A~" THEN 1 ELSE 0) + CountMarks(Tail(s))

RECURSIVE SumSeq(_)
SumSeq(ns) == IF ns = <<>> THEN 0 ELSE Head(ns) + SumSeq(Tail(ns))

CellMarks(cells) ==
    SumSeq([r \in 1..Len(cells) |->
        SumSeq([j \in 1..Len(cells[r]) |->
            IF IsText(cells[r][j]) THEN CountMarks(cells[r][j].str) ELSE 0])])

\* pd.read_csv(csv_path, encoding=enc, sep=sep_val, engine='python', on_bad_lines='skip')
read_csv(f, enc, sep) ==
    IF DecodeFails(f, enc)
    THEN [ok |-> FALSE]
    ELSE LET columns == MangleDupes(SplitHeader(
                            [i \in 1..Len(f.fields) |-> DecodeStr(f.fields[i], f.written, enc)],
                            f.gaps, sep))
             cells == ParseCells(f, enc, sep, Len(columns))
         IN  [ok |-> TRUE,
              columns |-> columns,
              cells |-> cells,
              enc |-> enc, sep |-> sep,
              markers |-> (IF f.written = "utf-8" /\ enc \in Latin1Family THEN f.marks ELSE 0)
                              + CellMarks(cells)]

\* Variant of Accepts: the comparison written `>= 1`, so a one-column table is kept.
Accepts_ge1(df_try) == Len(df_try.columns) >= 1

\* df_try.shape[1] > 1
Accepts(df_try) == Len(df_try.columns) > 1

\* main is not running: the specifications of load_data and of its parts
MainOff ==
    /\ mpc = "off" /\ uploaded_file = None /\ heap = <<>>
    /\ df_ref = 0 /\ filtered_ref = 0 /\ invoked = <<>> /\ main_ui = <<>>
    /\ widgets = None /\ shown = None

----------------------------------------------------------------------------
(* load_data *)

enc == encodings_to_try[enc_i]
sep_val == seps_to_try[sep_i]
df_try == read_csv(file, enc, sep_val)

\* The two for statements: the next sep_val, or after the last one the check
\* `if best_df is not None: break` and the next enc.
Advance(bd) ==
    IF sep_i < Len(seps_to_try)
    THEN pc' = "loop" /\ sep_i' = sep_i + 1 /\ enc_i' = enc_i
    ELSE IF bd = None /\ enc_i < Len(encodings_to_try)
         THEN pc' = "loop" /\ sep_i' = 1 /\ enc_i' = enc_i + 1
         ELSE pc' = "after_loop" /\ UNCHANGED <<enc_i, sep_i>>

\* Variant of TrialRaises: the exception of read_csv is not swallowed and
\* leaves load_data.
TrialRaises_propagates ==
    /\ pc = "loop"
    /\ ~read_csv(file, encodings_to_try[enc_i], seps_to_try[sep_i]).ok
    /\ outcome' = "raised"
    /\ pc' = "done"
    /\ UNCHANGED <<file, enc_i, sep_i, best_df, df_local, ui, skipped, cache, run, prev, normVars, extraVars>>

\* read_csv raised: `except: continue`
TrialRaises ==
    /\ pc = "loop"
    /\ ~df_try.ok
    /\ skipped' = skipped \cup {<<enc_i, sep_i>>}
    /\ Advance(best_df)
    /\ UNCHANGED <<file, best_df, df_local, outcome, ui, cache, run, prev, normVars, extraVars>>

\* read_csv succeeded with shape[1] <= 1: nothing is kept, the loop goes on
TrialOneColumn ==
    /\ pc = "loop"
    /\ df_try.ok
    /\ ~Accepts(df_try)
    /\ Advance(best_df)
    /\ UNCHANGED <<file, best_df, df_local, outcome, ui, skipped, cache, run, prev, normVars, extraVars>>

\* Variant of TrialAccept: the `break` of the inner loop is missing, so a later
\* delimiter of the same encoding replaces the table kept so far.
TrialAccept_nobreak ==
    /\ pc = "loop"
    /\ df_try.ok
    /\ Accepts(df_try)
    /\ best_df' = [df_try EXCEPT !.columns = _normalize_cols(@)]
    /\ Advance([df_try EXCEPT !.columns = _normalize_cols(@)])
    /\ UNCHANGED <<file, df_local, outcome, ui, skipped, cache, run, prev, normVars, extraVars>>

\* read_csv succeeded with shape[1] > 1: normalize the headers, keep the table, break
TrialAccept ==
    /\ pc = "loop"
    /\ df_try.ok
    /\ Accepts(df_try)
    /\ best_df' = [df_try EXCEPT !.columns = _normalize_cols(@)]
    /\ pc' = "after_loop"
    /\ UNCHANGED <<file, enc_i, sep_i, df_local, outcome, ui, skipped, cache, run, prev, normVars, extraVars>>

\* `if best_df is None`: st.error(...) and st.stop()
NoParsable ==
    /\ pc = "after_loop"
    /\ best_df = None
    /\ ui' = ui \o <<"st.error", "st.stop">>
    /\ outcome' = "stopped"
    /\ pc' = "done"
    /\ UNCHANGED <<file, enc_i, sep_i, best_df, df_local, skipped, cache, run, prev, normVars, extraVars>>

\* Variant of rename: the new label is ALIASES.get(c), empty for a header that
\* is not a key.
rename_get(columns) ==
    [i \in 1..Len(columns) |->
        IF columns[i] \in DOMAIN ALIASES THEN ALIASES[columns[i]] ELSE <<>>]

\* best_df.rename(columns=rename_map) with rename_map = {c: ALIASES[c] ...}
rename(columns) ==
    [i \in 1..Len(columns) |->
        IF columns[i] \in DOMAIN ALIASES THEN ALIASES[columns[i]] ELSE columns[i]]

NumericCols == <<sales, profit, quantity, discount>>
TextCols == <<region, category>>

Count(columns, c) == Cardinality({i \in 1..Len(columns) : columns[i] = c})

\* df_local[c] is a DataFrame, not a Series, when the label c occurs twice:
\* pd.to_numeric raises TypeError and .str raises AttributeError.
CoercionRaises(columns) ==
    \/ \E k \in 1..Len(NumericCols) : Count(columns, NumericCols[k]) > 1
    \/ \E k \in 1..Len(TextCols) : Count(columns, TextCols[k]) > 1

Column(cells, j) == [r \in 1..Len(cells) |-> cells[r][j]]

\* Variant of to_numeric: errors="ignore", the column is returned as it is
\* when one of its cells does not parse.
to_numeric_ignore(column) ==
    IF \E r \in 1..Len(column) : IsText(column[r]) /\ ~IsIntText(column[r].str)
    THEN column
    ELSE [r \in 1..Len(column) |->
             IF IsText(column[r]) THEN Num(IntOf(column[r].str), FALSE) ELSE column[r]]

\* pd.to_numeric(column, errors="coerce"): a number stays, a text that parses
\* becomes its number, any other cell becomes missing; the result is float64
\* when a value is missing.
to_numeric(column) ==
    LET one(c) == IF IsNum(c) THEN c
                  ELSE IF IsText(c) /\ IsIntText(c.str) THEN Num(IntOf(c.str), FALSE)
                  ELSE NaN
        anyna == \E r \in 1..Len(column) : IsNaN(one(column[r]))
    IN  [r \in 1..Len(column) |->
            IF IsNaN(one(column[r])) THEN NaN ELSE Num(one(column[r]).num, anyna)]

\* column.astype(str): every cell becomes a text, a missing value the text "nan"
astype_str(column) ==
    [r \in 1..Len(column) |->
        IF IsNaN(column[r]) THEN Text(<<"n", "a", "n">>)
        ELSE IF IsNum(column[r]) THEN Text(NumStr(column[r]))
        ELSE column[r]]

\* column.astype(str).str.strip()
strip_text(column) ==
    LET texts == astype_str(column)
    IN  [r \in 1..Len(texts) |-> Text(str_strip(texts[r].str))]

\* The two loops over the canonical columns (numeric coercion, text trimming).
coerce_and_trim(columns, cells) ==
    LET newcol(j) ==
            IF \E k \in 1..Len(NumericCols) : NumericCols[k] = columns[j]
            THEN to_numeric(Column(cells, j))
            ELSE IF \E k \in 1..Len(TextCols) : TextCols[k] = columns[j]
            THEN strip_text(Column(cells, j))
            ELSE Column(cells, j)
    IN  [r \in 1..Len(cells) |-> [j \in 1..Len(columns) |-> newcol(j)[r]]]

\* rename, numeric coercion, text trimming, return df_local (stored by st.cache_data)
ReturnTable ==
    /\ pc = "after_loop"
    /\ best_df # None
    /\ ~CoercionRaises(rename(best_df.columns))
    /\ df_local' = [best_df EXCEPT !.columns = rename(@),
                                   !.cells = coerce_and_trim(rename(best_df.columns), @)]
    /\ cache' = df_local'
    /\ outcome' = "returned"
    /\ pc' = "done"
    /\ UNCHANGED <<file, enc_i, sep_i, best_df, ui, skipped, run, prev, normVars, extraVars>>

\* rename, then the coercion or trimming loop raises: nothing is returned or cached
CoerceRaises ==
    /\ pc = "after_loop"
    /\ best_df # None
    /\ CoercionRaises(rename(best_df.columns))
    /\ outcome' = "raised"
    /\ pc' = "done"
    /\ UNCHANGED <<file, enc_i, sep_i, best_df, df_local, ui, skipped, cache, run, prev, normVars, extraVars>>

\* The script runs again and calls load_data(csv_path): no cache entry, the body runs
CallMiss ==
    /\ pc = "done"
    /\ run < MaxRuns
    /\ cache = None
    /\ prev' = [outcome |-> outcome, df |-> df_local]
    /\ run' = run + 1
    /\ pc' = "loop" /\ enc_i' = 1 /\ sep_i' = 1
    /\ best_df' = None /\ df_local' = None /\ outcome' = "running"
    /\ ui' = <<>> /\ skipped' = {}
    /\ UNCHANGED <<file, cache, normVars, extraVars>>

\* The script runs again and calls load_data(csv_path): st.cache_data returns the entry
CallCached ==
    /\ pc = "done"
    /\ run < MaxRuns
    /\ cache # None
    /\ prev' = [outcome |-> outcome, df |-> df_local]
    /\ run' = run + 1
    /\ df_local' = cache /\ outcome' = "returned"
    /\ ui' = <<>>
    /\ UNCHANGED <<file, pc, enc_i, sep_i, best_df, skipped, cache, normVars, extraVars>>

Init ==
    /\ \E k \in 1..MaxFields : file \in Files(k)
    /\ pc = "loop" /\ enc_i = 1 /\ sep_i = 1
    /\ best_df = None /\ df_local = None /\ outcome = "running"
    /\ ui = <<>> /\ skipped = {} /\ cache = None /\ run = 1 /\ prev = None
    /\ cols_in = <<>> /\ cols_out = <<>> /\ cols_out2 = <<>>
    /\ alias_key = <<>> /\ resolved = <<>> /\ variant = "original"
    /\ MainOff

Next ==
    \/ TrialRaises
    \/ TrialOneColumn
    \/ TrialAccept
    \/ NoParsable
    \/ ReturnTable
    \/ CoerceRaises
    \/ CallMiss
    \/ CallCached

Spec == Init /\ [][Next]_vars

----------------------------------------------------------------------------
(* _normalize_cols on its own: applied to a list of headers, then to its   *)
(* own result.                                                             *)

NormAlphabet == {BOM, " ", TAB, "S", "s"}
HeaderStrings == UNION {[1..k -> NormAlphabet] : k \in 0..MaxLen}
OtherHeaders == {hdr_Vendas, <<" ", "i", "d">>}
HeaderLists ==
    {<<h>> : h \in HeaderStrings}
        \cup {<<h, g>> : h \in HeaderStrings, g \in OtherHeaders}
        \cup {<<g, h>> : h \in HeaderStrings, g \in OtherHeaders}

InitNorm ==
    /\ cols_in \in HeaderLists
    /\ cols_out = <<>> /\ cols_out2 = <<>>
    /\ pc = "norm"
    /\ file = None /\ enc_i = 1 /\ sep_i = 1
    /\ best_df = None /\ df_local = None /\ outcome = "running"
    /\ ui = <<>> /\ skipped = {} /\ cache = None /\ run = 1 /\ prev = None
    /\ alias_key = <<>> /\ resolved = <<>> /\ variant = "original"
    /\ MainOff

Normalize ==
    /\ pc = "norm"
    /\ cols_out' = _normalize_cols(cols_in)
    /\ pc' = "normalized"
    /\ UNCHANGED <<cols_in, cols_out2, loadVars, extraVars>>

NormalizeAgain ==
    /\ pc = "normalized"
    /\ cols_out2' = _normalize_cols(cols_out)
    /\ pc' = "renormalized"
    /\ UNCHANGED <<cols_in, cols_out, loadVars, extraVars>>

NextNorm == Normalize \/ NormalizeAgain

SpecNorm == InitNorm /\ [][NextNorm]_vars

----------------------------------------------------------------------------
(* Alias resolution on its own: a header that spells an ALIASES key with   *)
(* any letter case and surrounding whitespace goes through _normalize_cols *)
(* (as in the trial loop) and through the rename.                          *)

Pads == UNION {[1..k -> {" ", TAB}] : k \in 0..MaxPad}

\* str.upper() of one lowercase letter
UpperOf(c) ==
    IF \E u \in DOMAIN UpperLetters : UpperLetters[u] = c
    THEN CHOOSE u \in DOMAIN UpperLetters : UpperLetters[u] = c
    ELSE c

Spelling(k, upper, lpad, rpad) ==
    lpad \o [i \in 1..Len(k) |-> IF i \in upper THEN UpperOf(k[i]) ELSE k[i]] \o rpad

InitAlias ==
    /\ alias_key \in DOMAIN ALIASES
    /\ \E upper \in SUBSET (1..Len(alias_key)) : \E lpad \in Pads : \E rpad \in Pads :
           cols_in = <<Spelling(alias_key, upper, lpad, rpad)>>
    /\ cols_out = <<>> /\ cols_out2 = <<>> /\ resolved = <<>>
    /\ pc = "alias"
    /\ file = None /\ enc_i = 1 /\ sep_i = 1
    /\ best_df = None /\ df_local = None /\ outcome = "running"
    /\ ui = <<>> /\ skipped = {} /\ cache = None /\ run = 1 /\ prev = None
    /\ variant = "original"
    /\ MainOff

\* df_try.columns = _normalize_cols(df_try.columns)
NormalizeHeader ==
    /\ pc = "alias"
    /\ cols_out' = _normalize_cols(cols_in)
    /\ pc' = "alias_normalized"
    /\ UNCHANGED <<cols_in, cols_out2, alias_key, resolved, loadVars, variant, mainVars>>

\* rename_map = {c: ALIASES[c] ...}; best_df.rename(columns=rename_map)
ResolveAlias ==
    /\ pc = "alias_normalized"
    /\ resolved' = rename(cols_out)
    /\ pc' = "alias_resolved"
    /\ UNCHANGED <<cols_in, cols_out, cols_out2, alias_key, loadVars, variant, mainVars>>

NextAlias == NormalizeHeader \/ ResolveAlias

SpecAlias == InitAlias /\ [][NextAlias]_vars

----------------------------------------------------------------------------
(* load_data on files with data rows.  The data is first loaded from a     *)
(* UTF-8 file; afterwards the same data, written with the other delimiter  *)
(* or in the other encoding to another path, is loaded as well.            *)

CellTexts == {<<"1", "0">>, <<"x">>, <<>>, <<" ", "a~", " ">>}

\* Every cell of a row holds the same text.
DataRows(k) == {[i \in 1..k |-> t] : t \in CellTexts}

\* The data files with k columns.
DataFiles(k) ==
    {[fields |-> fs, gaps |-> [i \in 1..(k - 1) |-> d], written |-> "utf-8",
      bad |-> FALSE, marks |-> 0, rows |-> rs] :
        fs \in [1..k -> HeaderWords], d \in FileSeps,
        rs \in UNION {[1..n -> DataRows(k)] : n \in 0..MaxRows}}

InitData ==
    /\ \E k \in 1..MaxCols : file \in DataFiles(k)
    /\ variant = "original"
    /\ MainOff
    /\ pc = "loop" /\ enc_i = 1 /\ sep_i = 1
    /\ best_df = None /\ df_local = None /\ outcome = "running"
    /\ ui = <<>> /\ skipped = {} /\ cache = None /\ run = 1 /\ prev = None
    /\ cols_in = <<>> /\ cols_out = <<>> /\ cols_out2 = <<>>
    /\ alias_key = <<>> /\ resolved = <<>>

\* load_data is called on another path (no cache entry for it) that holds the
\* data of a comma-delimited file written with semicolons.
LoadOtherDelimiter ==
    /\ pc = "done"
    /\ variant = "original"
    /\ \A i \in 1..Len(file.gaps) : file.gaps[i] = ","
    /\ variant' = "delimiter"
    /\ file' = [file EXCEPT !.gaps = [i \in 1..Len(file.gaps) |-> ";"]]
    /\ prev' = [outcome |-> outcome, df |-> df_local, sel |-> best_df]
    /\ cache' = None
    /\ run' = run + 1
    /\ pc' = "loop" /\ enc_i' = 1 /\ sep_i' = 1
    /\ best_df' = None /\ df_local' = None /\ outcome' = "running"
    /\ ui' = <<>> /\ skipped' = {}
    /\ UNCHANGED <<normVars, aliasVars, mainVars>>

\* load_data is called on another path (no cache entry for it) that holds the
\* data of a UTF-8 file written in cp1252.
LoadOtherEncoding ==
    /\ pc = "done"
    /\ variant = "original"
    /\ variant' = "encoding"
    /\ file' = [file EXCEPT !.written = "cp1252"]
    /\ prev' = [outcome |-> outcome, df |-> df_local, sel |-> best_df]
    /\ cache' = None
    /\ run' = run + 1
    /\ pc' = "loop" /\ enc_i' = 1 /\ sep_i' = 1
    /\ best_df' = None /\ df_local' = None /\ outcome' = "running"
    /\ ui' = <<>> /\ skipped' = {}
    /\ UNCHANGED <<normVars, aliasVars, mainVars>>

NextData ==
    \/ TrialRaises
    \/ TrialOneColumn
    \/ TrialAccept
    \/ NoParsable
    \/ ReturnTable
    \/ CoerceRaises
    \/ LoadOtherDelimiter
    \/ LoadOtherEncoding

SpecData == InitData /\ [][NextData]_vars

----------------------------------------------------------------------------
(* main: the script that Streamlit runs again after every interaction.     *)
(* It finds or receives the CSV file, calls load_data, checks the columns, *)
(* filters the rows and calls the selected analysis functions.  The file   *)
(* is found among csv_candidates (uploaded_file = None) or it is uploaded  *)
(* under a name that is not a candidate and written to csv_path in every   *)
(* run; `file` is the content at csv_path and `cache` the st.cache_data    *)
(* entry of load_data for that csv_path.                                   *)

discount_range == <<"d", "i", "s", "c", "o", "u", "n", "t", "_", "r", "a", "n", "g", "e">>

hdr_full == REQUIRED
hdr_aliased == <<hdr_Vendas, lucro, quantity, categoria, desconto, hdr_Regiao_til>>
hdr_lacking == <<sales, profit, quantity, category, region>>
hdr_single == <<sales>>
hdr_twice == <<sales, hdr_Vendas, quantity, category, discount, region>>
MainHeaders == {hdr_full, hdr_aliased, hdr_lacking, hdr_single, hdr_twice}

\* A sale with a profit (margin 50%) and a sale at a loss (margin -90%).
RowGood ==
    (sales :> <<"1", "0">>) @@ (profit :> <<"5">>) @@ (quantity :> <<"1">>) @@
    (category :> <<"x">>) @@ (discount :> <<"0">>) @@ (region :> <<"a~">>)
RowLoss ==
    (sales :> <<"1", "0">>) @@ (profit :> <<"-", "9">>) @@ (quantity :> <<"2">>) @@
    (category :> <<"x">>) @@ (discount :> <<"2", "0">>) @@ (region :> <<"b">>)

\* A sale of another category (margin 5%) whose discount field is empty.
RowNoDiscount ==
    (sales :> <<"2", "0">>) @@ (profit :> <<"1">>) @@ (quantity :> <<"1">>) @@
    (category :> <<"y">>) @@ (discount :> <<>>) @@ (region :> <<"b">>)
RowKinds == <<RowGood, RowLoss, RowNoDiscount>>

\* n rows, the three kinds in turn, beginning with the kind `first`.
RowPattern(n, first) ==
    [r \in 1..n |-> RowKinds[((first + r - 2) % Len(RowKinds)) + 1]]

\* The fields of a data row, in the order of the header h.
RowText(h, row) == [i \in 1..Len(h) |-> row[rename(_normalize_cols(<<h[i]>>))[1]]]

\* Comma-delimited files written in UTF-8; the file with the Portuguese
\* headers is also there as written in cp1252.
MainFiles ==
    {[fields |-> h, gaps |-> [i \in 1..(Len(h) - 1) |-> ","], written |-> "utf-8",
      bad |-> FALSE, marks |-> 0,
      rows |-> [r \in 1..n |-> RowText(h, RowPattern(n, first)[r])]] :
        h \in MainHeaders, n \in 0..MaxRows, first \in 1..Len(RowKinds)}
    \cup
    {[fields |-> hdr_aliased, gaps |-> [i \in 1..(Len(hdr_aliased) - 1) |-> ","],
      written |-> "cp1252", bad |-> FALSE, marks |-> 0,
      rows |-> [r \in 1..n |-> RowText(hdr_aliased, RowPattern(n, 1)[r])]] :
        n \in 0..MaxRows}

MinMargins == {-50, 0}

AnalysisFunctions ==
    <<[key |-> "health", fn |-> "analyze_financial_health"],
      [key |-> "profit_sources", fn |-> "analyze_profit_sources"],
      [key |-> "loss_sources", fn |-> "analyze_loss_sources"],
      [key |-> "discounts", fn |-> "analyze_discount_impact"],
      [key |-> "regional", fn |-> "analyze_regional_differences"],
      [key |-> "recommendations", fn |-> "generate_executive_recommendations"]>>
AnalysisKeys == {AnalysisFunctions[i].key : i \in 1..Len(AnalysisFunctions)} \cup {"all"}

\* The chain of `if analysis_key in [..., "all"]` statements.
calls(analysis_key) ==
    LET sel == SelectSeq(AnalysisFunctions, LAMBDA a : analysis_key \in {a.key, "all"})
    IN  [i \in 1..Len(sel) |-> sel[i].fn]

\* Variant of missing_cols: the membership test is dropped, nothing is missing.
missing_cols_unchecked(columns) == <<>>

\* missing_cols = [c for c in REQUIRED if c not in df.columns]
missing_cols(columns) ==
    SelectSeq(REQUIRED, LAMBDA c : \A j \in 1..Len(columns) : columns[j] # c)

\* Position of the column labelled c (0: no such column).
ColIndex(columns, c) ==
    IF \E j \in 1..Len(columns) : columns[j] = c
    THEN CHOOSE j \in 1..Len(columns) : columns[j] = c
    ELSE 0

Cell(t, r, c) == t.cells[r][ColIndex(t.columns, c)]

\* df[mask]: a new object with the rows r for which mask[r] is True, in order
boolean_index(t, mask) ==
    LET kept == {r \in 1..Len(t.cells) : mask[r]}
        nth(k) == CHOOSE r \in kept : Cardinality({q \in kept : q < r}) = k - 1
    IN  [t EXCEPT !.cells = [k \in 1..Cardinality(kept) |-> t.cells[nth(k)]]]

\* sorted(df[c].dropna().unique().tolist()), as a set
unique_values(t, c) ==
    {Cell(t, r, c) : r \in 1..Len(t.cells)} \ {NaN}

\* (profit / sales * 100) >= min_margin in exact arithmetic; a comparison
\* with NaN (a missing operand, or 0 / 0) is False, x / 0 is +inf or -inf.
margin_ok(p, s, min_margin) ==
    IF IsNaN(p) \/ IsNaN(s) THEN FALSE
    ELSE IF s.num > 0 THEN p.num * 100 >= min_margin * s.num
    ELSE IF s.num < 0 THEN p.num * 100 <= min_margin * s.num
    ELSE p.num > 0

\* Variant of empty: the check `if filtered_df.empty` is dropped.
empty_unchecked(t) == FALSE

\* filtered_df.empty
empty(t) == Len(t.cells) = 0 \/ Len(t.columns) = 0

\* pd.cut(x, bins=[-1, 0, 10, 20, 30, 100], labels=[...]): right-closed
\* intervals, NaN outside them
cut(c) ==
    IF IsNaN(c) THEN NaN
    ELSE IF c.num <= -1 THEN NaN
    ELSE IF c.num <= 0 THEN Text(<<"0", "%">>)
    ELSE IF c.num <= 10 THEN Text(<<"1", "-", "1", "0", "%">>)
    ELSE IF c.num <= 20 THEN Text(<<"1", "1", "-", "2", "0", "%">>)
    ELSE IF c.num <= 30 THEN Text(<<"2", "1", "-", "3", "0", "%">>)
    ELSE IF c.num <= 100 THEN Text(<<">", "3", "0", "%">>)
    ELSE NaN

\* df['discount_range'] = pd.cut(df['discount'], ...): the column is added
\* to the object itself (or overwritten when it is there already)
set_discount_range(t) ==
    LET j == ColIndex(t.columns, discount_range)
        value(r) == cut(Cell(t, r, discount))
    IN  IF ColIndex(t.columns, discount) = 0 THEN t
        ELSE IF j = 0
        THEN [t EXCEPT !.columns = Append(@, discount_range),
                       !.cells = [r \in 1..Len(@) |-> Append(@[r], value(r))]]
        ELSE [t EXCEPT !.cells = [r \in 1..Len(@) |-> [@[r] EXCEPT ![j] = value(r)]]]

discount_labels ==
    <<Text(<<"0", "%">>), Text(<<"1", "-", "1", "0", "%">>),
      Text(<<"1", "1", "-", "2", "0", "%">>), Text(<<"2", "1", "-", "3", "0", "%">>),
      Text(<<">", "3", "0", "%">>)>>

\* Series.sum() over the rows rs of the column c: missing values are skipped
col_sum(t, c, rs) ==
    SumSeq([r \in 1..Len(t.cells) |->
        IF r \in rs /\ IsNum(Cell(t, r, c)) THEN Cell(t, r, c).num ELSE 0])

\* Series.count() over the rows rs of the column c: the values that are not missing
col_count(t, c, rs) == Cardinality({r \in rs : ~IsNaN(Cell(t, r, c))})

AllRows(t) == 1..Len(t.cells)

\* df.groupby('discount_range').agg({...}): one row for each of the five
\* labels, over the rows of df that carry the label; a row whose
\* discount_range is missing belongs to no group
groupby_discount_range(t) ==
    [k \in 1..Len(discount_labels) |->
        LET rs == {r \in AllRows(t) : Cell(t, r, discount_range) = discount_labels[k]}
        IN  [discount_range |-> discount_labels[k],
             sales |-> col_sum(t, sales, rs),
             profit |-> col_sum(t, profit, rs),
             quantity |-> col_sum(t, quantity, rs),
             transactions |-> col_count(t, discount, rs)]]

\* (profit / sales) * 100 if sales > 0 else 0, as the fraction n / d with d > 0
margin_pct(p, s) == IF s > 0 THEN [n |-> 100 * p, d |-> s] ELSE [n |-> 0, d |-> 1]
Below(q, k) == q.n < k * q.d
Above(q, k) == q.n > k * q.d
Smaller(q1, q2) == q1.n * q2.d < q2.n * q1.d

\* The rows of the group g of df.groupby(c)
group_rows(t, c, g) == {r \in AllRows(t) : Cell(t, r, c) = g}

\* df.groupby(c).apply(lambda x: margin of x), as a function of the group
group_margins(t, c) ==
    [g \in unique_values(t, c) |->
        margin_pct(col_sum(t, profit, group_rows(t, c, g)),
                   col_sum(t, sales, group_rows(t, c, g)))]

\* df['discount'].corr(df['profit']) < -0.3: Pearson correlation over the rows
\* where both values are present, NaN (and the comparison False) when one of
\* the variances is zero
discount_correlation_below(t) ==
    LET rs == {r \in AllRows(t) : IsNum(Cell(t, r, discount)) /\ IsNum(Cell(t, r, profit))}
        n == Cardinality(rs)
        sum1(c) == col_sum(t, c, rs)
        sum2(c1, c2) == SumSeq([r \in 1..Len(t.cells) |->
                            IF r \in rs THEN Cell(t, r, c1).num * Cell(t, r, c2).num ELSE 0])
        cov == n * sum2(discount, profit) - sum1(discount) * sum1(profit)
        vd == n * sum2(discount, discount) - sum1(discount) * sum1(discount)
        vp == n * sum2(profit, profit) - sum1(profit) * sum1(profit)
    IN  vd * vp > 0 /\ cov < 0 /\ 100 * cov * cov > 9 * vd * vp

RECURSIVE SetSum(_, _)
SetSum(f, S) == IF S = {} THEN 0 ELSE LET x == CHOOSE x \in S : TRUE IN f[x] + SetSum(f, S \ {x})

\* category_profits.nlargest(3).sum()
top_3_profit(category_profits) ==
    LET G == DOMAIN category_profits
    IN  IF Cardinality(G) <= 3 THEN SetSum(category_profits, G)
        ELSE SetSum(category_profits,
                 CHOOSE S \in SUBSET G :
                     /\ Cardinality(S) = 3
                     /\ \A a \in S : \A b \in G \ S : category_profits[a] >= category_profits[b])

\* concentration > 70, with concentration = top_3_profit / total * 100, or 0
\* when the total is 0
concentration_above_70(t) ==
    LET category_profits == [g \in unique_values(t, category) |->
                                col_sum(t, profit, group_rows(t, category, g))]
        total == SetSum(category_profits, DOMAIN category_profits)
        top == top_3_profit(category_profits)
    IN  \/ total > 0 /\ 100 * top > 70 * total
        \/ total < 0 /\ 100 * top < 70 * total

\* priority_order (the priorities without their coloured circle)
priority_order == ("ALTA" :> 1) @@ ("MEDIA" :> 2) @@ ("MEDIA-ALTA" :> 3) @@ ("BAIXA" :> 4)

\* key=lambda x: priority_order.get(x["priority"], 5)
sort_key(rec) ==
    IF rec.priority \in DOMAIN priority_order THEN priority_order[rec.priority] ELSE 5

\* recommendations.sort(key=...): a stable sort
sort_by_priority(recs) ==
    SelectSeq(recs, LAMBDA x : sort_key(x) = 1) \o SelectSeq(recs, LAMBDA x : sort_key(x) = 2)
        \o SelectSeq(recs, LAMBDA x : sort_key(x) = 3) \o SelectSeq(recs, LAMBDA x : sort_key(x) = 4)
        \o SelectSeq(recs, LAMBDA x : sort_key(x) = 5)

Rec(priority, title) == [priority |-> priority, title |-> title]

\* The recommendations in the order they are displayed (None: idxmin raises on
\* a table without rows)
generate_executive_recommendations(t, avg_margin) ==
    IF Len(t.cells) = 0 THEN None
    ELSE
    LET category_margins == group_margins(t, category)
        region_margins == group_margins(t, region)
        worst_margin == region_margins[CHOOSE g \in DOMAIN region_margins :
                            \A h \in DOMAIN region_margins :
                                ~Smaller(region_margins[h], region_margins[g])]
        best_margin == category_margins[CHOOSE g \in DOMAIN category_margins :
                            \A h \in DOMAIN category_margins :
                                ~Smaller(category_margins[g], category_margins[h])]
        margin == IF Below(avg_margin, 5) THEN <<Rec("ALTA", "Margem Critica")>>
                  ELSE IF Below(avg_margin, 10) THEN <<Rec("MEDIA", "Margem Abaixo da Meta")>>
                  ELSE <<>>
        critical == IF \E g \in DOMAIN category_margins : Below(category_margins[g], 0)
                    THEN <<Rec("ALTA", "Categorias com PREJUIZO")>> ELSE <<>>
        risky == IF \E g \in DOMAIN category_margins :
                        ~Below(category_margins[g], 0) /\ Below(category_margins[g], 5)
                 THEN <<Rec("MEDIA", "Categorias de Alto Risco")>> ELSE <<>>
        discounts == IF discount_correlation_below(t)
                     THEN <<Rec("MEDIA", "Descontos Prejudicando Lucro")>> ELSE <<>>
        concentrated == IF concentration_above_70(t)
                        THEN <<Rec("MEDIA-ALTA", "Alta Concentracao de Lucro")>> ELSE <<>>
        regions == IF Below(worst_margin, 0) THEN <<Rec("ALTA", "Regiao em PREJUIZO")>>
                   ELSE IF Below(worst_margin, 3)
                   THEN <<Rec("MEDIA", "Regiao com Baixa Rentabilidade")>>
                   ELSE <<>>
        opportunity == IF Above(best_margin, 20) THEN <<Rec("BAIXA", "OPORTUNIDADE")>> ELSE <<>>
        found == margin \o critical \o risky \o discounts \o concentrated \o regions
                     \o opportunity
        recommendations ==
            IF Len(found) < 4
            THEN found \o <<Rec("BAIXA", "Monitoramento Continuo"),
                            Rec("MEDIA", "Treinamento da Equipe")>>
            ELSE found
    IN  sort_by_priority(recommendations)

\* Variant of analysis_arg: the analysis functions are handed df.
analysis_arg_df == df_ref

\* The table handed to the analysis functions: filtered_df
analysis_arg == filtered_ref

InitMain ==
    /\ \/ file \in MainFiles /\ uploaded_file = None
       \/ file = None /\ uploaded_file \in MainFiles \cup {None}
    /\ mpc = "start" /\ pc = "idle" /\ enc_i = 1 /\ sep_i = 1
    /\ best_df = None /\ df_local = None /\ outcome = "running"
    /\ ui = <<>> /\ skipped = {} /\ cache = None /\ run = 1 /\ prev = None
    /\ heap = <<>> /\ df_ref = 0 /\ filtered_ref = 0 /\ invoked = <<>> /\ main_ui = <<>>
    /\ widgets = None /\ shown = None
    /\ cols_in = <<>> /\ cols_out = <<>> /\ cols_out2 = <<>>
    /\ alias_key = <<>> /\ resolved = <<>> /\ variant = "original"

\* No candidate exists and nothing is uploaded: st.error, st.info, st.stop
NoCsv ==
    /\ mpc = "start"
    /\ file = None /\ uploaded_file = None
    /\ main_ui' = <<"st.error: carregue um arquivo CSV", "st.info", "st.stop">>
    /\ mpc' = "end"
    /\ UNCHANGED <<file, pc, enc_i, sep_i, best_df, df_local, outcome, ui, skipped,
                   cache, run, prev, uploaded_file, widgets, shown, heap, df_ref, filtered_ref,
                   invoked, normVars, aliasVars, variant>>

\* The content at csv_path when load_data is called: the candidate found on
\* disk, or the upload that main has just written there.
csv_content == IF uploaded_file # None THEN uploaded_file ELSE file

\* df = load_data(csv_path), no st.cache_data entry for csv_path: the body runs
MainLoadMiss ==
    /\ mpc = "start"
    /\ csv_content # None
    /\ cache = None
    /\ file' = csv_content
    /\ pc' = "loop" /\ enc_i' = 1 /\ sep_i' = 1
    /\ best_df' = None /\ df_local' = None /\ outcome' = "running"
    /\ ui' = <<>> /\ skipped' = {}
    /\ mpc' = "load"
    /\ UNCHANGED <<cache, run, prev, uploaded_file, widgets, shown, heap, df_ref, filtered_ref,
                   invoked, main_ui, normVars, aliasVars, variant>>

\* df = load_data(csv_path), st.cache_data has an entry for the argument
\* csv_path: the body does not run, a copy of the entry is returned
MainLoadCached ==
    /\ mpc = "start"
    /\ csv_content # None
    /\ cache # None
    /\ file' = csv_content
    /\ df_local' = cache /\ outcome' = "returned" /\ pc' = "done"
    /\ ui' = <<>>
    /\ mpc' = "load"
    /\ UNCHANGED <<enc_i, sep_i, best_df, skipped, cache, run, prev, uploaded_file, widgets, shown,
                   heap, df_ref, filtered_ref, invoked, main_ui, normVars,
                   aliasVars, variant>>

\* load_data called st.stop() or raised: the run of the script ends in load_data
LoadHalts ==
    /\ mpc = "load" /\ pc = "done"
    /\ outcome \in {"stopped", "raised"}
    /\ mpc' = "end"
    /\ UNCHANGED <<loadVars, pc, uploaded_file, widgets, shown, heap, df_ref, filtered_ref, invoked,
                   main_ui, normVars, aliasVars, variant>>

\* `if missing_cols`: st.error("Colunas faltantes: ..."), st.info, st.stop
MissingColumns ==
    /\ mpc = "load" /\ pc = "done"
    /\ outcome = "returned"
    /\ missing_cols(df_local.columns) # <<>>
    /\ heap' = <<df_local>> /\ df_ref' = 1
    /\ main_ui' = <<"st.error: Colunas faltantes", "st.info", "st.stop">>
    /\ mpc' = "end"
    /\ UNCHANGED <<loadVars, pc, uploaded_file, widgets, shown, filtered_ref, invoked, normVars,
                   aliasVars, variant>>

\* No column is missing: main goes on to the diagnosis and the filter widgets
ColumnsPresent ==
    /\ mpc = "load" /\ pc = "done"
    /\ outcome = "returned"
    /\ missing_cols(df_local.columns) = <<>>
    /\ heap' = <<df_local>> /\ df_ref' = 1
    /\ mpc' = "filter"
    /\ UNCHANGED <<loadVars, pc, uploaded_file, widgets, shown, filtered_ref, invoked, main_ui,
                   normVars, aliasVars, variant>>

\* The filters: filtered_df = df[region and category mask].copy(), then the
\* margin mask when rows are left, then `if filtered_df.empty`: st.warning, st.stop
ApplyFilters ==
    /\ mpc = "filter"
    /\ LET d == heap[df_ref]
           ri == ColIndex(d.columns, region)
           ci == ColIndex(d.columns, category)
           pi == ColIndex(d.columns, profit)
           si == ColIndex(d.columns, sales)
       IN  \E selected_regions \in SUBSET unique_values(d, region) :
           \E selected_categories \in SUBSET unique_values(d, category) :
           \E min_margin \in MinMargins :
               LET in_sel(row) == row[ri] \in selected_regions /\ row[ci] \in selected_categories
                   in_margin(row) == margin_ok(row[pi], row[si], min_margin)
                   first == boolean_index(d, [r \in 1..Len(d.cells) |-> in_sel(d.cells[r])])
                   objs == IF Len(first.cells) > 0
                           THEN <<first, boolean_index(first,
                                      [r \in 1..Len(first.cells) |-> in_margin(first.cells[r])])>>
                           ELSE <<first>>
               IN  /\ widgets' = [selected_regions |-> selected_regions,
                                   selected_categories |-> selected_categories,
                                   min_margin |-> min_margin]
                   /\ heap' = heap \o objs
                   /\ filtered_ref' = Len(heap')
                   /\ IF empty(objs[Len(objs)])
                      THEN main_ui' = <<"st.warning", "st.stop">> /\ mpc' = "end"
                      ELSE main_ui' = main_ui /\ mpc' = "dispatch"
    /\ UNCHANGED <<loadVars, pc, uploaded_file, shown, df_ref, invoked, normVars,
                   aliasVars, variant>>

\* The analyses of the selected analysis_key are called with filtered_df, in
\* the order of the code; analyze_discount_impact adds discount_range to its
\* argument.  The raw data view and the footer that follow change nothing.
Dispatch ==
    /\ mpc = "dispatch"
    /\ \E analysis_key \in AnalysisKeys :
           /\ invoked' = calls(analysis_key)
           /\ heap' = IF analysis_key \in {"discounts", "all"}
                      THEN [heap EXCEPT ![analysis_arg] = set_discount_range(@)]
                      ELSE heap
           /\ shown' =
                  [discount_analysis |->
                       IF analysis_key \in {"discounts", "all"}
                       THEN groupby_discount_range(heap'[analysis_arg])
                       ELSE None,
                   recommendations |->
                       IF analysis_key \in {"recommendations", "all"}
                       THEN LET fd == heap[filtered_ref]
                            IN  generate_executive_recommendations(heap'[analysis_arg],
                                    margin_pct(col_sum(fd, profit, AllRows(fd)),
                                               col_sum(fd, sales, AllRows(fd))))
                       ELSE None]
    /\ mpc' = "end"
    /\ UNCHANGED <<loadVars, pc, uploaded_file, widgets, df_ref, filtered_ref, main_ui,
                   normVars, aliasVars, variant>>

\* The state a new run of the script starts from: its local objects are gone
NewRun ==
    /\ run' = run + 1
    /\ mpc' = "start" /\ pc' = "idle" /\ enc_i' = 1 /\ sep_i' = 1
    /\ best_df' = None /\ df_local' = None /\ outcome' = "running"
    /\ ui' = <<>> /\ skipped' = {}
    /\ heap' = <<>> /\ df_ref' = 0 /\ filtered_ref' = 0 /\ invoked' = <<>>
    /\ main_ui' = <<>> /\ widgets' = None /\ shown' = None
    /\ UNCHANGED <<file, cache, prev, normVars, aliasVars, variant>>

\* A widget other than the uploader is used: Streamlit runs the script again
Rerun ==
    /\ mpc = "end"
    /\ run < MaxRuns
    /\ NewRun
    /\ UNCHANGED uploaded_file

\* Another file is uploaded under the same name (the uploader is shown when
\* no candidate exists): Streamlit runs the script again
UploadAgain ==
    /\ mpc = "end"
    /\ run < MaxRuns
    /\ uploaded_file # None \/ file = None
    /\ \E f \in MainFiles \ {uploaded_file} : uploaded_file' = f
    /\ NewRun

NextMain ==
    \/ NoCsv
    \/ MainLoadMiss
    \/ MainLoadCached
    \/ TrialRaises
    \/ TrialOneColumn
    \/ TrialAccept
    \/ NoParsable
    \/ ReturnTable
    \/ CoerceRaises
    \/ LoadHalts
    \/ MissingColumns
    \/ ColumnsPresent
    \/ ApplyFilters
    \/ Dispatch
    \/ Rerun
    \/ UploadAgain

SpecMain == InitMain /\ [][NextMain]_vars

----------------------------------------------------------------------------
(* The detection candidates and their score, as the specification defines  *)
(* them (section 4.1): the code computes no score.                         *)

W == 10
Pairs == (1..Len(encodings_to_try)) \X (1..Len(seps_to_try))
Candidate(f, p) == read_csv(f, encodings_to_try[p[1]], seps_to_try[p[2]])
Survives(f, p) ==
    LET c == Candidate(f, p) IN c.ok /\ Len(c.columns) > 1
Precedes(p, q) == p[1] < q[1] \/ (p[1] = q[1] /\ p[2] < q[2])
PairOf(df) ==
    CHOOSE p \in Pairs : encodings_to_try[p[1]] = df.enc /\ seps_to_try[p[2]] = df.sep

required_hit(df) ==
    LET columns == rename(_normalize_cols(df.columns))
    IN  Cardinality({k \in 1..Len(REQUIRED) :
            \E i \in 1..Len(columns) : columns[i] = REQUIRED[k]})
mojibake_penalty(df) == IF df.markers >= MojibakeThreshold THEN 1 ELSE 0
score(df) == required_hit(df) * W - mojibake_penalty(df)

AllRejected(f) == \A p \in Pairs : ~Survives(f, p)

\* Two headers of the table resolve to the same canonical field.
HeadersCollide(columns) ==
    LET renamed == rename(columns)
    IN  \E i, j \in 1..Len(columns) :
            /\ i < j
            /\ renamed[i] = renamed[j]
            /\ \E k \in 1..Len(REQUIRED) : renamed[i] = REQUIRED[k]

----------------------------------------------------------------------------
(* Claims *)

\* C1: the table load_data returns is that of a best-scoring candidate: no
\* pair that parses without error into more than one column has a strictly
\* higher score (required_hit * 10 - mojibake penalty) than the returned one.
C1_ReturnsBestScore ==
    outcome = "returned" =>
        LET returned == score(Candidate(file, PairOf(df_local)))
        IN  \A p \in Pairs :
                Survives(file, p) => score(Candidate(file, p)) <= returned

\* C2: a surviving candidate with fewer recoverable canonical fields than
\* another surviving candidate is never the one selected.
C2_FewerFieldsNeverSelected ==
    best_df # None =>
        LET selected == required_hit(Candidate(file, PairOf(best_df)))
        IN  \A p \in Pairs :
                Survives(file, p) => required_hit(Candidate(file, p)) <= selected

C4_LoaderHasNoUiEffect == ui = <<>> /\ outcome # "stopped"

\* C5: when two headers of the selected table resolve to the same canonical
\* field, load_data fails with AmbiguousColumnMapping and returns no table.
C5_CollisionIsAmbiguousColumnMapping ==
    (pc = "done" /\ best_df # None /\ HeadersCollide(best_df.columns)) =>
        outcome = "AmbiguousColumnMapping"

\* C6: every call ends with a returned table or a typed error value
\* (NoParsableDialect, AmbiguousColumnMapping); no exception leaves load_data.
C6_TableOrTypedError ==
    pc = "done" => outcome \in {"returned", "NoParsableDialect", "AmbiguousColumnMapping"}

\* C7: a trial that raises only eliminates its own candidate: the loop moves
\* to the next pair in iteration order (or ends after the last pair), the
\* kept table is untouched and nothing is surfaced to the caller.
C7_TrialFailureOnlyEliminates ==
    [][(pc = "loop" /\ ~Candidate(file, <<enc_i, sep_i>>).ok) =>
          /\ outcome' = "running" /\ ui' = ui /\ best_df' = best_df
          /\ IF <<enc_i, sep_i>> = <<Len(encodings_to_try), Len(seps_to_try)>>
             THEN pc' = "after_loop"
             ELSE /\ pc' = "loop"
                  /\ <<enc_i', sep_i'>> =
                        IF sep_i < Len(seps_to_try)
                        THEN <<enc_i, sep_i + 1>> ELSE <<enc_i + 1, 1>>]_vars

C7_Witness == outcome = "returned" /\ skipped # {}

StripLeadingBom(s) == IF s # <<>> /\ Head(s) = BOM THEN Tail(s) ELSE s
SpecNormalize(s) == str_replace_space(str_lower(str_strip(StripLeadingBom(s))))

\* C9: _normalize_cols maps each header to the result of stripping a leading
\* BOM, stripping whitespace, lowercasing and replacing spaces, in this order,
\* keeping length and order of the list.
C9_NormalizeInSpecOrder ==
    pc \in {"normalized", "renormalized"} =>
        /\ Len(cols_out) = Len(cols_in)
        /\ \A i \in 1..Len(cols_in) : cols_out[i] = SpecNormalize(cols_in[i])

\* C10: normalizing the output of _normalize_cols gives that output again.
C10_NormalizeIdempotent == pc = "renormalized" => cols_out2 = cols_out

\* C11: every spelling of an ALIASES key that differs from it only in letter
\* case and surrounding whitespace resolves, after _normalize_cols and the
\* ALIASES lookup, to the canonical field of that key.
C11_SpellingsResolve ==
    pc = "alias_resolved" => resolved = <<ALIASES[alias_key]>>

C11_Witness ==
    /\ pc = "alias_resolved"
    /\ cols_in = <<<<" ", "R", "E", "G", "I", "A~", "O", TAB>>>>
    /\ resolved = <<region>>

IsNumericCol(c) == \E k \in 1..Len(NumericCols) : NumericCols[k] = c
IsTextCol(c) == \E k \in 1..Len(TextCols) : TextCols[k] = c

\* C12: the rename gives a header its canonical field exactly when the header
\* is a key of ALIASES; every other header keeps its name, and its column is
\* in the returned table with its cells unmodified.
C12_RenameKeysPassOthers ==
    outcome = "returned" =>
        /\ Len(df_local.columns) = Len(best_df.columns)
        /\ Len(df_local.cells) = Len(best_df.cells)
        /\ \A j \in 1..Len(best_df.columns) :
              IF best_df.columns[j] \in DOMAIN ALIASES
              THEN df_local.columns[j] = ALIASES[best_df.columns[j]]
              ELSE /\ df_local.columns[j] = best_df.columns[j]
                   /\ \A r \in 1..Len(best_df.cells) :
                          df_local.cells[r][j] = best_df.cells[r][j]

C12_Witness ==
    /\ outcome = "returned"
    /\ best_df.columns = <<vendas, hdr_id>>
    /\ df_local.columns = <<sales, hdr_id>>
    /\ Len(df_local.cells) = MaxRows
    /\ df_local.cells[1][2] = Text(<<" ", "a~", " ">>)

\* C13: in each numeric canonical column of the returned table every cell is
\* coerced on its own: a cell whose text is a number holds that number, any
\* other cell is missing, and the table has as many rows as the file.
C13_CoercionPerCell ==
    outcome = "returned" =>
        /\ Len(df_local.cells) = Len(file.rows)
        /\ \A j \in 1..Len(df_local.columns) :
              IsNumericCol(df_local.columns[j]) =>
                  \A r \in 1..Len(file.rows) :
                      IF IsIntText(file.rows[r][j])
                      THEN /\ IsNum(df_local.cells[r][j])
                           /\ df_local.cells[r][j].num = IntOf(file.rows[r][j])
                      ELSE IsNaN(df_local.cells[r][j])

C13_Witness ==
    /\ outcome = "returned"
    /\ \E j \in 1..Len(df_local.columns) :
          /\ IsNumericCol(df_local.columns[j])
          /\ Len(file.rows) = 2
          /\ file.rows[1][j] = <<"x">> /\ IsNaN(df_local.cells[1][j])
          /\ file.rows[2][j] = <<"1", "0">> /\ df_local.cells[2][j].num = 10

\* C14: in the text columns region and category of the returned table every
\* present cell holds its text without surrounding whitespace and every cell
\* that was missing after parsing is still missing.
C14_TrimKeepsMissing ==
    outcome = "returned" =>
        \A j \in 1..Len(df_local.columns) :
            IsTextCol(df_local.columns[j]) =>
                \A r \in 1..Len(best_df.cells) :
                    LET b == best_df.cells[r][j]
                        d == df_local.cells[r][j]
                    IN  IF IsNaN(b) THEN IsNaN(d)
                        ELSE /\ IsText(d)
                             /\ d.str = str_strip(IF IsText(b) THEN b.str ELSE NumStr(b))

----------------------------------------------------------------------------
(* main *)

\* load_data has ended by returning a table and main has got it
Loaded == mpc \notin {"off", "start"} /\ pc = "done" /\ outcome = "returned"

\* A canonical field is not among the columns.
LacksField(columns) ==
    \E k \in 1..Len(REQUIRED) : \A j \in 1..Len(columns) : columns[j] # REQUIRED[k]

C18_AnalysisOnlyAfterChecks ==
    invoked # <<>> =>
        /\ Loaded
        /\ df_ref # 0 /\ heap[df_ref].columns = df_local.columns
        /\ ~LacksField(df_local.columns)
        /\ filtered_ref # 0 /\ Len(heap[filtered_ref].cells) > 0

C18_Witness ==
    /\ Len(invoked) = Len(AnalysisFunctions)
    /\ Len(heap[filtered_ref].cells) < Len(heap[df_ref].cells)

\* C19: the table that load_data returned is never changed in place by main
\* or by an analysis function: the object `df` keeps the columns and cells it
\* was returned with for the whole run, and so does the st.cache_data entry.
C19_LoadedTableNotMutated ==
    df_ref # 0 => (heap[df_ref] = df_local /\ cache = df_local)

C19_Witness ==
    /\ \E i \in 1..Len(invoked) : invoked[i] = "analyze_discount_impact"
    /\ ColIndex(heap[filtered_ref].columns, discount_range) # 0
    /\ ColIndex(heap[df_ref].columns, discount_range) = 0
    /\ heap[df_ref] = df_local

\* What the body of load_data makes of the file f: the first pair of
\* encodings_to_try and seps_to_try that reads more than one column, its
\* headers normalized and renamed, its cells coerced and trimmed.
FirstFit(f) ==
    CHOOSE p \in Pairs : Survives(f, p) /\ \A q \in Pairs : Precedes(q, p) => ~Survives(f, q)
FreshTable(f) ==
    IF AllRejected(f) THEN None
    ELSE LET c == Candidate(f, FirstFit(f))
             columns == rename(_normalize_cols(c.columns))
         IN  IF CoercionRaises(columns) THEN None
             ELSE [c EXCEPT !.columns = columns,
                            !.cells = coerce_and_trim(columns, c.cells)]

\* C20: whatever runs and uploads came before, the table main analyzes is
\* the one load_data makes of the current content of the file at csv_path.
C20_TableReflectsCurrentFile ==
    Loaded => df_local = FreshTable(file)

\* C21: an analysis function leaves the table handed to it unchanged: the
\* object filtered_df has the same columns and the same rows after the
\* selected analyses were called as before.
C21_AnalysesLeaveTableUnchanged ==
    [][(mpc = "dispatch" /\ mpc' = "end")
           => heap'[filtered_ref'] = heap[filtered_ref]]_vars

\* value=-50.0 of the slider "Filtrar margem minima (%)"
min_margin_default == -50

\* The widgets returned their defaults: every region, every category, -50.
DefaultFilters ==
    /\ widgets # None
    /\ widgets.selected_regions = unique_values(heap[df_ref], region)
    /\ widgets.selected_categories = unique_values(heap[df_ref], category)
    /\ widgets.min_margin = min_margin_default

\* The rows of the table u are the rows of the table t, in the columns of t.
SameRows(t, u) ==
    /\ Len(u.cells) = Len(t.cells)
    /\ \A r \in 1..Len(t.cells) : \A j \in 1..Len(t.columns) : u.cells[r][j] = t.cells[r][j]

\* C22: with the default filter settings the filtered table holds every row
\* of the loaded table.
C22_DefaultFiltersKeepEveryRow ==
    DefaultFilters => SameRows(heap[df_ref], heap[filtered_ref])

\* C23: in analyze_discount_impact every row of the input table falls into
\* exactly one of the five discount ranges: the transaction counts of the
\* ranges sum to the number of rows, and their sales and profit sums add up to
\* the totals of the table.
C23_RangesPartitionRows ==
    (shown # None /\ shown.discount_analysis # None) =>
        LET t == heap[filtered_ref]
            da == shown.discount_analysis
        IN  /\ \A r \in AllRows(t) :
                   Cardinality({k \in 1..Len(discount_labels) :
                       Cell(t, r, discount_range) = discount_labels[k]}) = 1
            /\ SumSeq([k \in 1..Len(da) |-> da[k].transactions]) = Len(t.cells)
            /\ SumSeq([k \in 1..Len(da) |-> da[k].sales]) = col_sum(t, sales, AllRows(t))
            /\ SumSeq([k \in 1..Len(da) |-> da[k].profit]) = col_sum(t, profit, AllRows(t))

\* The order of priorities the specification names: ALTA, MEDIA-ALTA, MEDIA, BAIXA.
priority_rank == ("ALTA" :> 1) @@ ("MEDIA-ALTA" :> 2) @@ ("MEDIA" :> 3) @@ ("BAIXA" :> 4)

\* C24: generate_executive_recommendations displays its recommendations in
\* non-increasing priority: every ALTA before every MEDIA-ALTA, every
\* MEDIA-ALTA before every MEDIA, every MEDIA before every BAIXA.
C24_DisplayedByPriority ==
    (shown # None /\ shown.recommendations # None) =>
        \A i, j \in 1..Len(shown.recommendations) :
            i < j => priority_rank[shown.recommendations[i].priority]
                         <= priority_rank[shown.recommendations[j].priority]

====
